---- MODULE Spec2Model ----
(***************************************************************************)
(* Model of plugin/completion/flags_manager.py (EasyClangComplete):        *)
(* FlagsManager.get_flags and its helpers over a small file system.        *)
(* Text is modelled with TLA+ strings, character by character, so that     *)
(* parsing, path resolution and writing are computed as the code computes  *)
(* them.                                                                   *)
(***************************************************************************)
EXTENDS Integers, Sequences, FiniteSets, TLC

\* ------------------------------------------------------------------------
\* Bounds of the model
\* ------------------------------------------------------------------------

\* number of folders between from_folder (1) and to_folder (NumDirs)
NumDirs == 2
\* the user saves files at most MaxEdits times
MaxEdits == 2
\* the static methods are called directly at most MaxSteps times
MaxSteps == 2

Dirs == 1..NumDirs

\* ------------------------------------------------------------------------
\* Python string and os.path operations used by the code (posix)
\* ------------------------------------------------------------------------

CharAt(s, i) == SubSeq(s, i, i)

\* s[n:]
Drop(s, n) == SubSeq(s, n + 1, Len(s))

\* str.startswith
StartsWith(s, prefix) ==
    /\ Len(s) >= Len(prefix)
    /\ SubSeq(s, 1, Len(prefix)) = prefix

IsSpace(c) == c \in {" ", "\n", "\t"}

\* str.strip()
RECURSIVE Strip(_)
Strip(s) ==
    IF s = "" THEN s
    ELSE IF IsSpace(CharAt(s, 1)) THEN Strip(Drop(s, 1))
    ELSE IF IsSpace(CharAt(s, Len(s))) THEN Strip(SubSeq(s, 1, Len(s) - 1))
    ELSE s

\* index of the first character of s at or after i that is in seps, or
\* Len(s) + 1 if there is none
FindFrom(s, i, seps) ==
    LET hits == {j \in i..Len(s) : CharAt(s, j) \in seps}
    IN  IF hits = {} THEN Len(s) + 1
        ELSE CHOOSE j \in hits : \A k \in hits : j <= k

\* str.split(): tokens separated by runs of whitespace
RECURSIVE Split(_)
Split(s) ==
    IF s = "" THEN <<>>
    ELSE IF IsSpace(CharAt(s, 1)) THEN Split(Drop(s, 1))
    ELSE LET e == FindFrom(s, 1, {" ", "\n", "\t"})
         IN  <<SubSeq(s, 1, e - 1)>> \o Split(Drop(s, e - 1))

\* str.split('/'): every separator cuts, empty components are kept
RECURSIVE SplitSlash(_)
SplitSlash(s) ==
    LET e == FindFrom(s, 1, {"/"})
    IN  IF e > Len(s) THEN <<s>>
        ELSE <<SubSeq(s, 1, e - 1)>> \o SplitSlash(Drop(s, e))

\* file.readlines(): lines keep their newline
RECURSIVE ReadLines(_)
ReadLines(text) ==
    IF text = "" THEN <<>>
    ELSE LET e == FindFrom(text, 1, {"\n"})
         IN  IF e > Len(text) THEN <<text>>
             ELSE <<SubSeq(text, 1, e)>> \o ReadLines(Drop(text, e))

\* sep.join(parts)
RECURSIVE Join(_, _)
Join(sep, parts) ==
    IF Len(parts) = 0 THEN ""
    ELSE IF Len(parts) = 1 THEN parts[1]
    ELSE parts[1] \o sep \o Join(sep, Tail(parts))

\* os.path.isabs
IsAbs(p) == StartsWith(p, "/")

\* the component loop of os.path.normpath
RECURSIVE NormComps(_, _, _)
NormComps(comps, new_comps, initial_slashes) ==
    IF Len(comps) = 0 THEN new_comps
    ELSE LET comp == Head(comps)
             rest == Tail(comps)
         IN  IF comp \in {"", "."}
               THEN NormComps(rest, new_comps, initial_slashes)
             ELSE IF \/ comp /= ".."
                     \/ (initial_slashes = 0 /\ Len(new_comps) = 0)
                     \/ (Len(new_comps) > 0
                          /\ new_comps[Len(new_comps)] = "..")
               THEN NormComps(rest, Append(new_comps, comp), initial_slashes)
             ELSE IF Len(new_comps) > 0
               THEN NormComps(rest, SubSeq(new_comps, 1, Len(new_comps) - 1),
                              initial_slashes)
             ELSE NormComps(rest, new_comps, initial_slashes)

\* os.path.normpath
NormPath(p) ==
    IF p = "" THEN "."
    ELSE LET initial_slashes ==
                 IF ~StartsWith(p, "/") THEN 0
                 ELSE IF StartsWith(p, "//") /\ ~StartsWith(p, "///") THEN 2
                 ELSE 1
             joined == Join("/", NormComps(SplitSlash(p), <<>>,
                                           initial_slashes))
             res == IF initial_slashes = 2 THEN "//" \o joined
                    ELSE IF initial_slashes = 1 THEN "/" \o joined
                    ELSE joined
         IN  IF res = "" THEN "." ELSE res

\* os.path.join(a, b)
PathJoin(a, b) ==
    IF StartsWith(b, "/") THEN b
    ELSE IF a = "" \/ CharAt(a, Len(a)) = "/" THEN a \o b
    ELSE a \o "/" \o b

\* set(a_list)
ToSet(seq) == {seq[i] : i \in 1..Len(seq)}

\* iterating a set yields its elements in an order the program does not
\* control: some order, fixed for each set
RECURSIVE Iterate(_)
Iterate(S) ==
    IF S = {} THEN <<>>
    ELSE LET x == CHOOSE x \in S : TRUE
         IN  <<x>> \o Iterate(S \ {x})

Reverse(seq) == [i \in 1..Len(seq) |-> seq[Len(seq) + 1 - i]]

\* the orders of iteration the model follows: that order and its reverse
Orders(S) == {Iterate(S), Reverse(Iterate(S))}

\* ------------------------------------------------------------------------
\* Flag Parser
\* ------------------------------------------------------------------------

\* mask.format(flag, p)
Mask(separate_includes, flag, p) ==
    IF separate_includes THEN flag \o " \"" \o p \o "\"" ELSE flag \o p

\* the loop's iteration leaving a relative -I path as it is written, to be
\* resolved by whoever uses the flag
ParseLineUnanchored(line, folder, separate_includes) ==
    IF StartsWith(line, "-D") THEN <<Strip(line)>>
    ELSE IF StartsWith(line, "-I") THEN
        LET path_to_add == Strip(Drop(line, 2))
        IN  IF IsAbs(path_to_add)
              THEN <<Mask(separate_includes, "-I", NormPath(path_to_add))>>
              ELSE <<Mask(separate_includes, "-I", path_to_add)>>
    ELSE IF StartsWith(line, "-isystem") THEN
        LET path_to_add == Strip(Drop(line, 8))
        IN  IF IsAbs(path_to_add)
              THEN <<Strip(Mask(separate_includes, "-isystem",
                                NormPath(path_to_add)))>>
              ELSE <<Strip(Mask(separate_includes, "-isystem",
                                PathJoin(folder, path_to_add)))>>
    ELSE <<>>

\* one iteration of the loop over the lines of a .clang_complete file
ParseLine(line, folder, separate_includes) ==
    IF StartsWith(line, "-D") THEN <<Strip(line)>>
    ELSE IF StartsWith(line, "-I") THEN
        LET path_to_add == Strip(Drop(line, 2))
        IN  IF IsAbs(path_to_add)
              THEN <<Mask(separate_includes, "-I", NormPath(path_to_add))>>
              ELSE <<Mask(separate_includes, "-I",
                          PathJoin(folder, path_to_add))>>
    ELSE IF StartsWith(line, "-isystem") THEN
        LET path_to_add == Strip(Drop(line, 8))
        IN  IF IsAbs(path_to_add)
              THEN <<Strip(Mask(separate_includes, "-isystem",
                                NormPath(path_to_add)))>>
              ELSE <<Strip(Mask(separate_includes, "-isystem",
                                PathJoin(folder, path_to_add)))>>
    ELSE <<>>

RECURSIVE ParseLines(_, _, _)
ParseLines(lines, folder, separate_includes) ==
    IF Len(lines) = 0 THEN <<>>
    ELSE ParseLine(Head(lines), folder, separate_includes)
           \o ParseLines(Tail(lines), folder, separate_includes)

\* flags_from_clang_file(file, separate_includes); file is a record
\* [loaded, folder, text] standing for a File and the text at its path
flags_from_clang_file(file, separate_includes) ==
    IF ~file.loaded THEN <<>>
    ELSE ParseLines(ReadLines(file.text), file.folder, separate_includes)

\* the flags one command contributes; "error" stands for the IndexError of
\* all_command_parts[i + 1] when -isystem is the last token
RECURSIVE CommandFlags(_, _)
CommandFlags(parts, i) ==
    IF i > Len(parts) THEN [error |-> FALSE, flags |-> {}]
    ELSE LET rest == CommandFlags(parts, i + 1)
         IN  IF StartsWith(parts[i], "-I") \/ StartsWith(parts[i], "-D")
               THEN [error |-> rest.error,
                     flags |-> {Strip(parts[i])} \cup rest.flags]
             ELSE IF StartsWith(parts[i], "-isystem")
               THEN IF i + 1 > Len(parts)
                      THEN [error |-> TRUE, flags |-> {}]
                      ELSE [error |-> rest.error,
                            flags |-> {Strip(parts[i] \o " " \o parts[i + 1])}
                                        \cup rest.flags]
             ELSE rest

RECURSIVE EntriesFlags(_)
EntriesFlags(data) ==
    IF Len(data) = 0 THEN [error |-> FALSE, flags |-> {}]
    ELSE LET first == CommandFlags(Split(Head(data)), 1)
             rest == EntriesFlags(Tail(data))
         IN  [error |-> first.error \/ rest.error,
              flags |-> first.flags \cup rest.flags]

\* flags_from_database(database_file); the database is a record
\* [json, data]: json is FALSE for a file json.load rejects, data is the
\* sequence of the entries' command strings.  The result is
\* [kind, flags] with kind "raise" (an exception leaves the function),
\* "none" (None is returned) or "set".
flags_from_database(database) ==
    IF ~database.json THEN [kind |-> "raise", flags |-> {}]
    ELSE IF Len(database.data) = 0 THEN [kind |-> "none", flags |-> {}]
    ELSE LET r == EntriesFlags(database.data)
         IN  IF r.error THEN [kind |-> "raise", flags |-> {}]
             ELSE [kind |-> "set", flags |-> r.flags]

\* ------------------------------------------------------------------------
\* Reconciler
\* ------------------------------------------------------------------------

\* get_flags_strategy with the dialog's first two answers exchanged
GetFlagsStrategySwapped(strategy, user_pick) ==
    IF strategy = "ask"
      THEN IF user_pick = "DIALOG_YES" THEN "overwrite"
           ELSE IF user_pick = "DIALOG_NO" THEN "merge"
           ELSE "keep_old"
      ELSE strategy

\* get_flags_strategy(strategy); user_pick is the dialog's answer
get_flags_strategy(strategy, user_pick) ==
    IF strategy = "ask"
      THEN IF user_pick = "DIALOG_YES" THEN "merge"
           ELSE IF user_pick = "DIALOG_NO" THEN "overwrite"
           ELSE "keep_old"
      ELSE strategy

\* write_flags_to_file without the return of keep_old
FlagsToWriteNoReturn(new_flags, file, strategy, user_pick) ==
    [write |-> TRUE,
     flags |-> IF file.loaded
                    /\ get_flags_strategy(strategy, user_pick) = "merge"
                 THEN new_flags \cup ToSet(flags_from_clang_file(file, FALSE))
                 ELSE new_flags,
     prompt |-> file.loaded /\ strategy = "ask",
     flag_strategy |-> IF file.loaded
                         THEN get_flags_strategy(strategy, user_pick)
                         ELSE "none"]

\* write_flags_to_file up to the open(): which set, if any, is written.
\* file is [loaded, folder, text] for file_path (loaded = path.exists).
FlagsToWrite(new_flags, file, strategy, user_pick) ==
    IF file.loaded
      THEN LET flag_strategy == get_flags_strategy(strategy, user_pick)
           IN  IF flag_strategy = "keep_old"
                 THEN [write |-> FALSE, flags |-> {},
                       prompt |-> strategy = "ask",
                       flag_strategy |-> flag_strategy]
               ELSE IF flag_strategy = "merge"
                 THEN [write |-> TRUE,
                       flags |-> new_flags \cup
                                   ToSet(flags_from_clang_file(file, FALSE)),
                       prompt |-> strategy = "ask",
                       flag_strategy |-> flag_strategy]
               ELSE [write |-> TRUE, flags |-> new_flags,
                     prompt |-> strategy = "ask",
                     flag_strategy |-> flag_strategy]
      ELSE [write |-> TRUE, flags |-> new_flags, prompt |-> FALSE,
            flag_strategy |-> "none"]

\* the write without the newline that ends the file
WrittenTextUnterminated(order) == Join("\n", order)

\* f.write('\n'.join(new_flags) + '\n'), new_flags iterated in some order
WrittenText(order) == Join("\n", order) \o "\n"

\* ------------------------------------------------------------------------
\* File Reference (tools.File) and the file system
\* ------------------------------------------------------------------------

\* the folder of level d: to_folder is "/p", each level below adds "/s"
RECURSIVE Folder(_)
Folder(d) == IF d >= NumDirs THEN "/p" ELSE Folder(d + 1) \o "/s"

\* sub in text
Contains(text, sub) ==
    \E i \in 1..(Len(text) - Len(sub) + 1) :
        SubSeq(text, i, i + Len(sub) - 1) = sub

\* File(): no path bound, nothing seen
EmptyFile == [path |-> 0, seen |-> 0]

\* File.loaded()
Loaded(file) == file.path /= 0

\* File.was_modified(): the answer
WasModified(file, fs) == Loaded(file) /\ fs[file.path].mtime > file.seen

\* File.was_modified(): the reference afterwards
Observed(file, fs) ==
    IF WasModified(file, fs) THEN [file EXCEPT !.seen = fs[file.path].mtime]
    ELSE file

\* File.search(file_name, from_folder, to_folder, search_content): the
\* first folder, walking up from from_folder (1) to to_folder (NumDirs),
\* that has the file (containing search_content, "" for None)
RECURSIVE SearchFrom(_, _, _)
SearchFrom(d, fs, search_content) ==
    IF d > NumDirs THEN EmptyFile
    ELSE IF fs[d].exists /\ Contains(fs[d].text, search_content)
      THEN [path |-> d, seen |-> 0]
    ELSE SearchFrom(d + 1, fs, search_content)

Search(fs, search_content) == SearchFrom(1, fs, search_content)

\* the text and folder behind File(path of the .clang_complete in d)
ClangFileAt(d, fs) ==
    [loaded |-> fs[d].exists, folder |-> Folder(d), text |-> fs[d].text]

\* ------------------------------------------------------------------------
\* Inputs
\* ------------------------------------------------------------------------

\* contents of CMakeLists.txt: a genuine one and a decoy
CMakeTexts == {"project(x)\n", "# nothing\n"}

\* contents a user gives .clang_complete
UserTexts == {"-DA\n-I/a\n", "-DB\n-Iinc\n"}

\* compilation databases cmake can generate
Databases ==
    { [json |-> TRUE, data |-> <<"cc -DA -I/a -O2 x.c">>],
      [json |-> TRUE, data |-> <<"cc -Iinc x.c", "cc -Iinc -isystem /u y.c">>],
      [json |-> TRUE, data |-> <<>>] }

\* what a run of the cmake command can do: generate a database, exit with
\* status 0 without one, or exit non-zero
ToolOutcomes ==
    {[exit |-> 0, generated |-> TRUE, database |-> db] : db \in Databases}
      \cup {[exit |-> 0, generated |-> FALSE, database |-> [json |-> FALSE, data |-> <<>>]],
            [exit |-> 1, generated |-> FALSE, database |-> [json |-> FALSE, data |-> <<>>]]}

Strategies == {"ask", "merge", "overwrite", "keep_old"}

\* sublime.yes_no_cancel_dialog answers
Picks == {"DIALOG_YES", "DIALOG_NO", "DIALOG_CANCEL"}

\* ------------------------------------------------------------------------
\* State
\* ------------------------------------------------------------------------

VARIABLES
    use_cmake,              \* FlagsManager._use_cmake
    flags_update_strategy,  \* FlagsManager._flags_update_strategy
    cmake_file,             \* FlagsManager._cmake_file
    clang_complete_file,    \* FlagsManager._clang_complete_file
    flags,                  \* FlagsManager._flags
    fs_cmake,               \* CMakeLists.txt of each folder
    fs_clang,               \* .clang_complete of each folder
    fs_db,                  \* compile_commands.json in the temp build
                            \* directory of the project of each folder
    op,                     \* the operation that led to this state
    call,                   \* what the get_flags call that led to this
                            \* state did (NoCall after other operations)
    earlier,                \* the derived flags a get_flags call wrote
    unit,                   \* the last direct call of a static method
    steps,                  \* number of direct calls so far
    edits                   \* number of saves by the user so far

manager == <<use_cmake, flags_update_strategy, cmake_file,
             clang_complete_file, flags>>
files == <<fs_cmake, fs_clang, fs_db>>
history == <<op, call, earlier, unit, steps, edits>>
vars == <<manager, files, history>>

\* a file that does not exist; mtime, the modification time of a file, is
\* counted in saves of that file
NoText == [exists |-> FALSE, text |-> "", mtime |-> 0]
NoDatabase == [exists |-> FALSE, json |-> FALSE, data |-> <<>>]

NoCall ==
    [active |-> FALSE, s |-> FALSE, raised |-> FALSE, result |-> <<>>,
     tool |-> "not_run", generated |-> FALSE,
     database |-> FALSE,
     derived |-> "n/a", new_flags |-> {}, curr_flags |-> {},
     gate |-> "n/a", write_called |-> FALSE, existed |-> FALSE,
     prompts |-> 0, flag_strategy |-> "none", wrote |-> FALSE,
     target |-> 0, before |-> NoText, after |-> NoText,
     same_as_earlier |-> FALSE, reparsed |-> FALSE, source |-> 0]

NoEarlier == [valid |-> FALSE, dir |-> 0, flags |-> {}]

NoUnit ==
    [fn |-> "none", new_flags |-> {}, strategy |-> "none", dir |-> 0,
     flag_strategy |-> "none", prompts |-> 0, before |-> NoText,
     after |-> NoText, again |-> FALSE, user_pick |-> "none",
     separate_includes |-> FALSE, list |-> <<>>, kind |-> "n/a",
     set |-> {}]

\* the state after FlagsManager(use_cmake, flags_update_strategy, scope),
\* in a project that has none of the files yet
Init ==
    /\ use_cmake \in BOOLEAN
    /\ flags_update_strategy \in Strategies
    /\ cmake_file = EmptyFile
    /\ clang_complete_file = EmptyFile
    /\ flags = <<>>
    /\ fs_cmake = [d \in Dirs |-> NoText]
    /\ fs_clang = [d \in Dirs |-> NoText]
    /\ fs_db = [d \in Dirs |-> NoDatabase]
    /\ op = "init"
    /\ call = NoCall
    /\ earlier = NoEarlier
    /\ unit = NoUnit
    /\ steps = 0
    /\ edits = 0

\* ------------------------------------------------------------------------
\* The user's edits
\* ------------------------------------------------------------------------

\* CMakeLists.txt of folder d is created or saved with the given text
EditCMake(d, text) ==
    /\ edits < MaxEdits
    /\ edits' = edits + 1
    /\ fs_cmake' = [fs_cmake EXCEPT ![d] =
                      [exists |-> TRUE, text |-> text,
                       mtime |-> fs_cmake[d].mtime + 1]]
    /\ op' = "edit"
    /\ call' = NoCall
    /\ UNCHANGED <<manager, fs_clang, fs_db, earlier, unit, steps>>

\* .clang_complete of folder d is created or saved with the given text
EditClang(d, text) ==
    /\ edits < MaxEdits
    /\ edits' = edits + 1
    /\ fs_clang' = [fs_clang EXCEPT ![d] =
                      [exists |-> TRUE, text |-> text,
                       mtime |-> fs_clang[d].mtime + 1]]
    /\ op' = "edit"
    /\ call' = NoCall
    /\ earlier' = IF earlier.dir = d THEN NoEarlier ELSE earlier
    /\ unit' = NoUnit
    /\ UNCHANGED <<manager, fs_cmake, fs_db, steps>>

\* ------------------------------------------------------------------------
\* Reconciler: the write
\* ------------------------------------------------------------------------

\* write_flags_to_file resolving the strategy before it looks for the file
WriteFlagsResolvingFirst(new_flags, file, strategy, user_pick, order) ==
    LET w == FlagsToWrite(new_flags, file, strategy, user_pick)
    IN  [wrote |-> w.write,
         text |-> IF w.write THEN WrittenText(order) ELSE file.text,
         prompts |-> IF strategy = "ask" THEN 1 ELSE 0,
         flag_strategy |-> w.flag_strategy]

\* write_flags_to_file(new_flags, file_path, strategy): what it does to the
\* file, given the dialog's answer and the order the set is iterated in
write_flags_to_file(new_flags, file, strategy, user_pick, order) ==
    LET w == FlagsToWrite(new_flags, file, strategy, user_pick)
    IN  [wrote |-> w.write,
         text |-> IF w.write THEN WrittenText(order) ELSE file.text,
         prompts |-> IF w.prompt THEN 1 ELSE 0,
         flag_strategy |-> w.flag_strategy]

\* the answers the dialog can give where it is shown; one dummy answer
\* where it is not
Answers(file, strategy) ==
    IF FlagsToWrite({}, file, strategy, "DIALOG_CANCEL").prompt
      THEN Picks ELSE {"DIALOG_CANCEL"}

\* the orders in which the set to write can be iterated
WriteOrders(new_flags, file, strategy, user_pick) ==
    Orders(FlagsToWrite(new_flags, file, strategy, user_pick).flags)

\* ------------------------------------------------------------------------
\* Build Invoker
\* ------------------------------------------------------------------------

\* compile_cmake(cmake_file): the temp build directories after the command
\* has run with the given outcome.  The directory is chosen by the hash of
\* the CMakeLists.txt path, so each folder's project has its own and
\* finds there what earlier runs left.
RunCMake(d, tool) ==
    IF tool.generated
      THEN [fs_db EXCEPT ![d] = [exists |-> TRUE,
                                 json |-> tool.database.json,
                                 data |-> tool.database.data]]
      ELSE fs_db

\* compile_cmake(cmake_file): the database it returns; exists = FALSE
\* stands for None
compile_cmake(d, tool) == RunCMake(d, tool)[d]

\* ------------------------------------------------------------------------
\* FlagsManager
\* ------------------------------------------------------------------------

\* the search for CMakeLists.txt made whether or not cmake is to be used
FoundCMakeRegardless ==
    IF ~Loaded(cmake_file)
      THEN Search(fs_cmake, "project")
      ELSE cmake_file

\* get_flags, lines 66-73: the CMakeLists.txt reference after the search
FoundCMake ==
    IF use_cmake /\ ~Loaded(cmake_file)
      THEN Search(fs_cmake, "project")
      ELSE cmake_file

\* the second half of get_flags parsing .clang_complete on every call
FinishReparsing(separate_includes, cm, clang, db, info, e) ==
    \E found \in {IF ~Loaded(clang_complete_file)
                    THEN Search(clang, "")
                    ELSE clang_complete_file} :
    \E modified \in {WasModified(found, clang)} :
    \E new \in {IF Loaded(found)
                  THEN flags_from_clang_file(ClangFileAt(found.path, clang),
                                             separate_includes)
                  ELSE flags} :
        /\ cmake_file' = cm
        /\ clang_complete_file' = Observed(found, clang)
        /\ flags' = new
        /\ fs_clang' = clang
        /\ fs_db' = db
        /\ earlier' = e
        /\ call' = [info EXCEPT !.active = TRUE, !.s = separate_includes,
                                !.result = new, !.reparsed = modified,
                                !.source = found.path]

\* get_flags, lines 105-118: search for .clang_complete, re-parse it if it
\* was modified, return the flags.  cm, clang, db are the CMakeLists.txt
\* reference, the .clang_complete files and the databases that the first
\* half of the call left; info and e describe that half.
\* (\E x \in {e} names the value of e, computed once.)
Finish(separate_includes, cm, clang, db, info, e) ==
    \E found \in {IF ~Loaded(clang_complete_file)
                    THEN Search(clang, "")
                    ELSE clang_complete_file} :
    \E modified \in {WasModified(found, clang)} :
    \E new \in {IF modified
                  THEN flags_from_clang_file(ClangFileAt(found.path, clang),
                                             separate_includes)
                  ELSE flags} :
        /\ cmake_file' = cm
        /\ clang_complete_file' = Observed(found, clang)
        /\ flags' = new
        /\ fs_clang' = clang
        /\ fs_db' = db
        /\ earlier' = e
        /\ call' = [info EXCEPT !.active = TRUE, !.s = separate_includes,
                                !.result = new, !.reparsed = modified,
                                !.source = found.path]

\* an exception that leaves get_flags with the CMakeLists.txt reference as
\* it was before the call
RaiseForgetting(separate_includes, cm, db, info) ==
    /\ fs_db' = db
    /\ call' = [info EXCEPT !.active = TRUE, !.s = separate_includes,
                            !.raised = TRUE]
    /\ UNCHANGED <<cmake_file, clang_complete_file, flags, fs_clang,
                   earlier>>

\* an exception leaves get_flags after the cmake run
Raise(separate_includes, cm, db, info) ==
    /\ cmake_file' = cm
    /\ fs_db' = db
    /\ call' = [info EXCEPT !.active = TRUE, !.s = separate_includes,
                            !.raised = TRUE]
    /\ UNCHANGED <<clang_complete_file, flags, fs_clang, earlier>>

\* get_flags, lines 92-101: the flags differ from those of the file, so
\* write_flags_to_file is called
Update(separate_includes, cm, db, info, new_flags) ==
    LET d == cm.path
        file == ClangFileAt(d, fs_clang)
    IN  \E user_pick \in Answers(file, flags_update_strategy) :
        \E order \in WriteOrders(new_flags, file, flags_update_strategy,
                                 user_pick) :
        \E w \in {write_flags_to_file(new_flags, file, flags_update_strategy,
                                      user_pick, order)} :
            LET clang == IF w.wrote
                           THEN [fs_clang EXCEPT ![d] =
                                   [exists |-> TRUE, text |-> w.text,
                                    mtime |-> fs_clang[d].mtime + 1]]
                           ELSE fs_clang
                e == IF ~w.wrote THEN earlier
                     ELSE IF w.flag_strategy \in {"none", "overwrite"}
                       THEN [valid |-> TRUE, dir |-> d, flags |-> new_flags]
                     ELSE IF earlier.dir = d THEN NoEarlier
                     ELSE earlier
            IN  Finish(separate_includes, cm, clang, db,
                       [info EXCEPT !.gate = "differ",
                                    !.write_called = TRUE,
                                    !.existed = file.loaded,
                                    !.prompts = w.prompts,
                                    !.flag_strategy = w.flag_strategy,
                                    !.wrote = w.wrote,
                                    !.after = clang[d]],
                       e)

\* new_flags.symmetric_difference(curr_flags)
SymmetricDifference(a, b) == (a \ b) \cup (b \ a)

\* a gate that lets every derived set through
FlagsChangedAlways(new_flags, curr_flags) == TRUE

\* get_flags, line 92: the change-detection gate
FlagsChanged(new_flags, curr_flags) ==
    Cardinality(SymmetricDifference(new_flags, curr_flags)) > 0

\* get_flags, lines 80-103: CMakeLists.txt was modified
Compiled(separate_includes, cm, tool) ==
    LET d == cm.path
        db == RunCMake(d, tool)
        compilation_db == compile_cmake(d, tool)
        info == [NoCall EXCEPT !.tool = "run",
                               !.generated = tool.generated,
                               !.database = compilation_db.exists,
                               !.target = d, !.before = fs_clang[d],
                               !.after = fs_clang[d]]
    IN  IF ~compilation_db.exists
          THEN Finish(separate_includes, cm, fs_clang, db, info, earlier)
        ELSE
          \E new \in {flags_from_database(compilation_db)} :
          \E curr_flags \in {ToSet(flags_from_clang_file(
                                      ClangFileAt(d, fs_clang), FALSE))} :
              LET new_flags == new.flags
                  info2 == [info EXCEPT !.derived = new.kind,
                                        !.new_flags = new_flags,
                                        !.curr_flags = curr_flags,
                                        !.same_as_earlier =
                                            /\ earlier.valid
                                            /\ earlier.dir = d
                                            /\ earlier.flags = new_flags]
              IN  IF new.kind = "raise"
                    THEN Raise(separate_includes, cm, db, info2)
                  ELSE IF new.kind = "none"
                    \* None.symmetric_difference: AttributeError
                    THEN Raise(separate_includes, cm, db, info2)
                  ELSE IF FlagsChanged(new_flags, curr_flags)
                    THEN Update(separate_includes, cm, db, info2, new_flags)
                  ELSE Finish(separate_includes, cm, fs_clang, db,
                              [info2 EXCEPT !.gate = "equal"], earlier)

\* get_flags running cmake on every call once CMakeLists.txt is bound
GetFlagsEager(separate_includes) ==
    \E found \in {FoundCMake} :
        LET modified == use_cmake /\ Loaded(found)
            cm == IF use_cmake THEN Observed(found, fs_cmake) ELSE found
        IN  /\ op' = "get_flags"
            /\ UNCHANGED <<use_cmake, flags_update_strategy, fs_cmake, unit,
                           steps, edits>>
            /\ IF modified
                 THEN \E tool \in ToolOutcomes :
                          Compiled(separate_includes, cm, tool)
                 ELSE Finish(separate_includes, cm, fs_clang, fs_db,
                             NoCall, earlier)

\* get_flags(separate_includes)
get_flags(separate_includes) ==
    \E found \in {FoundCMake} :
        LET modified == use_cmake /\ WasModified(found, fs_cmake)
            cm == IF use_cmake THEN Observed(found, fs_cmake) ELSE found
        IN  /\ op' = "get_flags"
            /\ UNCHANGED <<use_cmake, flags_update_strategy, fs_cmake, unit,
                           steps, edits>>
            /\ IF modified
                 THEN \E tool \in ToolOutcomes :
                          Compiled(separate_includes, cm, tool)
                 ELSE Finish(separate_includes, cm, fs_clang, fs_db,
                             NoCall, earlier)

\* any_file_modified()
any_file_modified ==
    /\ cmake_file' = Observed(cmake_file, fs_cmake)
    /\ clang_complete_file' =
           IF WasModified(cmake_file, fs_cmake)
             THEN clang_complete_file
             ELSE Observed(clang_complete_file, fs_clang)
    /\ op' = "any_file_modified"
    /\ call' = NoCall
    /\ UNCHANGED <<use_cmake, flags_update_strategy, flags, files, earlier,
                   unit, steps, edits>>

Next ==
    \/ \E d \in Dirs, text \in CMakeTexts : EditCMake(d, text)
    \/ \E d \in Dirs, text \in UserTexts : EditClang(d, text)
    \/ \E separate_includes \in BOOLEAN : get_flags(separate_includes)
    \/ any_file_modified

Spec == Init /\ [][Next]_vars

\* ------------------------------------------------------------------------
\* The static methods called directly
\* ------------------------------------------------------------------------

\* flag sets handed to write_flags_to_file
NewFlagSets ==
    { {}, {"-DA", "-I/a"}, {"-Iinc", "-isystem /u"}, {"-I../x"} }

\* FlagsManager.write_flags_to_file(new_flags, path, strategy), path being
\* the .clang_complete of the folder unit.dir
CallWriteFlagsToFile(new_flags, strategy) ==
    /\ steps < MaxSteps
    /\ \E d \in {unit.dir} :
       \E file \in {ClangFileAt(d, fs_clang)} :
       \E user_pick \in Answers(file, strategy) :
       \E order \in WriteOrders(new_flags, file, strategy, user_pick) :
       \E w \in {write_flags_to_file(new_flags, file, strategy, user_pick,
                                     order)} :
       \E after \in {IF w.wrote
                       THEN [exists |-> TRUE, text |-> w.text,
                             mtime |-> fs_clang[d].mtime + 1]
                       ELSE fs_clang[d]} :
           /\ fs_clang' = [fs_clang EXCEPT ![d] = after]
           /\ unit' = [NoUnit EXCEPT
                       !.fn = "write_flags_to_file",
                       !.new_flags = new_flags, !.strategy = strategy,
                       !.dir = d, !.flag_strategy = w.flag_strategy,
                       !.prompts = w.prompts, !.before = fs_clang[d],
                       !.after = after,
                       !.again = /\ unit.fn = "write_flags_to_file"
                                 /\ unit.new_flags = new_flags
                                 /\ unit.strategy = strategy,
                       !.user_pick = IF w.prompts > 0 THEN user_pick
                                     ELSE "none"]
    /\ steps' = steps + 1
    /\ op' = "write_flags_to_file"
    /\ UNCHANGED <<manager, fs_cmake, fs_db, call, earlier, edits>>

\* no manager (the class defaults of _use_cmake and
\* _flags_update_strategy); the calls are about the .clang_complete of one
\* folder, which is absent or has a text of the user
InitStatic ==
    /\ use_cmake = FALSE
    /\ flags_update_strategy = "ask"
    /\ cmake_file = EmptyFile
    /\ clang_complete_file = EmptyFile
    /\ flags = <<>>
    /\ fs_cmake = [d \in Dirs |-> NoText]
    /\ fs_db = [d \in Dirs |-> NoDatabase]
    /\ \E d \in Dirs :
           /\ unit = [NoUnit EXCEPT !.dir = d]
           /\ \/ fs_clang = [e \in Dirs |-> NoText]
              \/ \E text \in UserTexts :
                     /\ fs_clang = [e \in Dirs |->
                                      IF e = d
                                        THEN [exists |-> TRUE, text |-> text,
                                              mtime |-> 1]
                                        ELSE NoText]
    /\ op = "init"
    /\ call = NoCall
    /\ earlier = NoEarlier
    /\ steps = 0
    /\ edits = 0

NextStatic ==
    \E new_flags \in NewFlagSets, strategy \in Strategies :
        CallWriteFlagsToFile(new_flags, strategy)

SpecStatic == InitStatic /\ [][NextStatic]_vars

\* ------------------------------------------------------------------------
\* The parsers called directly
\* ------------------------------------------------------------------------

\* contents of the .clang_complete handed to flags_from_clang_file
FileTexts ==
    UserTexts \cup
    { "",
      "-Iinclude\n-I/abs/include\n",
      "-I../x\n-O2\n-I /a/../b\n",
      "-isystem inc\n-std=c++11\n-Iz\n-isystem /u\n-DA\n-Ib" }

\* contents of the compile_commands.json handed to flags_from_database
DatabaseInputs ==
    { [json |-> TRUE,
       data |-> <<"clang -Iinc -DFOO=1 -isystem /usr/x -O2">>],
      [json |-> TRUE,
       data |-> <<"cc -Iinc x.c", "cc -Iinc -isystem /u y.c">>],
      [json |-> TRUE, data |-> <<"cc -isystem/u -Ia -I b.c">>],
      [json |-> TRUE, data |-> <<"cc -Iinc x.c -isystem">>],
      [json |-> TRUE, data |-> <<>>],
      [json |-> FALSE, data |-> <<>>] }

\* FlagsManager.flags_from_clang_file(File(path), separate_includes), path
\* being the .clang_complete of the folder unit.dir
CallFlagsFromClangFile(separate_includes) ==
    /\ steps < MaxSteps
    /\ unit' = [NoUnit EXCEPT
                   !.fn = "flags_from_clang_file",
                   !.dir = unit.dir,
                   !.separate_includes = separate_includes,
                   !.list = flags_from_clang_file(
                                ClangFileAt(unit.dir, fs_clang),
                                separate_includes)]
    /\ steps' = steps + 1
    /\ op' = "flags_from_clang_file"
    /\ UNCHANGED <<manager, files, call, earlier, edits>>

\* FlagsManager.flags_from_database(File(path)), path being the
\* compile_commands.json of the folder unit.dir
CallFlagsFromDatabase ==
    /\ steps < MaxSteps
    /\ \E r \in {flags_from_database(fs_db[unit.dir])} :
           unit' = [NoUnit EXCEPT
                      !.fn = "flags_from_database",
                      !.dir = unit.dir,
                      !.kind = r.kind,
                      !.set = r.flags]
    /\ steps' = steps + 1
    /\ op' = "flags_from_database"
    /\ UNCHANGED <<manager, files, call, earlier, edits>>

\* no manager; one folder has a .clang_complete (or none) and a
\* compile_commands.json
InitParser ==
    /\ use_cmake = FALSE
    /\ flags_update_strategy = "ask"
    /\ cmake_file = EmptyFile
    /\ clang_complete_file = EmptyFile
    /\ flags = <<>>
    /\ fs_cmake = [d \in Dirs |-> NoText]
    /\ \E d \in Dirs :
           /\ unit = [NoUnit EXCEPT !.dir = d]
           /\ \/ fs_clang = [e \in Dirs |-> NoText]
              \/ \E text \in FileTexts :
                     fs_clang = [e \in Dirs |->
                                   IF e = d
                                     THEN [exists |-> TRUE, text |-> text,
                                           mtime |-> 1]
                                     ELSE NoText]
           /\ \E database \in DatabaseInputs :
                  fs_db = [e \in Dirs |->
                             IF e = d
                               THEN [exists |-> TRUE,
                                     json |-> database.json,
                                     data |-> database.data]
                               ELSE NoDatabase]
    /\ op = "init"
    /\ call = NoCall
    /\ earlier = NoEarlier
    /\ steps = 0
    /\ edits = 0

NextParser ==
    \/ \E separate_includes \in BOOLEAN :
           CallFlagsFromClangFile(separate_includes)
    \/ CallFlagsFromDatabase

SpecParser == InitParser /\ [][NextParser]_vars

\* ------------------------------------------------------------------------
\* Properties
\* ------------------------------------------------------------------------

\* the set of flags of the .clang_complete f of folder d, parsed with
\* separate_includes = False
FlagSet(d, f) ==
    ToSet(flags_from_clang_file(
              [loaded |-> f.exists, folder |-> Folder(d), text |-> f.text],
              FALSE))

\* C1: two get_flags(s) calls in a row, with no file-system change between
\* them, end the same way with the same list, and the second one writes no
\* file and does not run the build tool.
C1_Idempotent ==
    [][(op = "get_flags" /\ op' = "get_flags" /\ call'.s = call.s)
          => /\ call'.raised = call.raised
             /\ call'.result = call.result
             /\ call'.tool = "not_run"
             /\ UNCHANGED files]_vars

\* C2: a get_flags call that finds CMakeLists.txt modified and derives the
\* very flag set that an earlier call derived and wrote (to a new file or
\* with overwrite) into the still untouched .clang_complete neither writes
\* that file nor prompts.
C2_NoRewrite ==
    (/\ call.active
     /\ call.generated
     /\ call.derived = "set"
     /\ call.same_as_earlier)
        => (~call.wrote /\ call.prompts = 0)

\* C3: in a get_flags call whose cmake run left a database, if the flags
\* extracted from the database and the flags parsed from the .clang_complete
\* next to CMakeLists.txt have an empty symmetric difference, then
\* write_flags_to_file is not called and the file keeps its content and its
\* modification time.
C3_Gate ==
    (/\ call.active
     /\ call.database
     /\ flags_from_database(fs_db[call.target]).kind = "set"
     /\ SymmetricDifference(flags_from_database(fs_db[call.target]).flags,
                            FlagSet(call.target, call.before)) = {})
        => /\ ~call.write_called
           /\ fs_clang[call.target] = call.before

\* C3 witness: a call that derived from the database exactly the flags of
\* an existing, non-empty .clang_complete.
C3_Witness ==
    /\ call.active
    /\ call.database
    /\ call.derived = "set"
    /\ call.before.exists
    /\ call.new_flags /= {}
    /\ call.new_flags = FlagSet(call.target, call.before)
    /\ call.gate = "equal"

\* C4: after write_flags_to_file(F, path, "overwrite"), the set of the
\* flags parsed from the file with separate_includes = False is F.
C4_RoundTrip ==
    (unit.fn = "write_flags_to_file" /\ unit.strategy = "overwrite")
        => FlagSet(unit.dir, unit.after) = unit.new_flags

\* C5: write_flags_to_file(new, path, "merge") on an existing file leaves a
\* file whose flag set includes the old flag set and new, and the same
\* merge applied again leaves the flag set as it is.
C5_MergeLaw ==
    (/\ unit.fn = "write_flags_to_file"
     /\ unit.strategy = "merge"
     /\ unit.before.exists)
        => /\ (FlagSet(unit.dir, unit.before) \cup unit.new_flags)
                  \subseteq FlagSet(unit.dir, unit.after)
           /\ unit.again
                  => FlagSet(unit.dir, unit.after)
                         = FlagSet(unit.dir, unit.before)

\* C6: whenever get_flags writes .clang_complete from the database, the
\* same call finds its .clang_complete reference modified, that reference
\* is the file just written, and the call returns the parse of the written
\* content.
C6_WriteObserved ==
    (call.active /\ call.wrote)
        => /\ call.reparsed
           /\ call.source = call.target
           /\ call.result =
                  flags_from_clang_file(
                      [loaded |-> TRUE, folder |-> Folder(call.target),
                       text |-> call.after.text], call.s)

\* C7: no operation other than get_flags changes the manager's file
\* references (with their recorded modification times) or its flag list.
C7_OnlyGetFlagsMutates ==
    [][op' /= "get_flags"
          => UNCHANGED <<cmake_file, clang_complete_file, flags>>]_vars

\* C8: a get_flags call whose cmake run leaves a database that is an empty
\* array returns normally and does not touch .clang_complete.
C8_EmptyDatabase ==
    (/\ call.active
     /\ call.database
     /\ fs_db[call.target].json
     /\ Len(fs_db[call.target].data) = 0)
        => /\ ~call.raised
           /\ ~call.wrote
           /\ call.result = flags

\* C9: a get_flags call whose cmake run exits non-zero or generates no
\* database, and that returns, has not called write_flags_to_file, has left
\* .clang_complete as it was and returns the manager's flag list.
C9_ToolFailure ==
    (/\ call.active
     /\ call.tool = "run"
     /\ ~call.generated
     /\ ~call.raised)
        => /\ ~call.write_called
           /\ fs_clang[call.target] = call.before
           /\ call.result = flags

\* C10: when write_flags_to_file finds a file at the path and the strategy
\* resolves to keep_old, the file is afterwards as it was before.
C10_KeepOld ==
    (/\ unit.fn = "write_flags_to_file"
     /\ unit.before.exists
     /\ unit.flag_strategy = "keep_old")
        => /\ unit.after = unit.before
           /\ fs_clang[unit.dir] = unit.before

\* C10 witness: the dialog was answered with cancel for flags that the
\* existing file does not have.
C10_Witness ==
    /\ unit.fn = "write_flags_to_file"
    /\ unit.before.exists
    /\ unit.strategy = "ask"
    /\ unit.flag_strategy = "keep_old"
    /\ unit.new_flags /= {}
    /\ unit.new_flags /= FlagSet(unit.dir, unit.before)

\* C11: the dialog is shown in a get_flags call exactly once when the call
\* reaches write_flags_to_file with the strategy "ask" and a .clang_complete
\* already at the path it writes to; it is not shown for merge, overwrite
\* or keep_old, nor when there is no such file, nor when the gate skips the
\* write.
C11_PromptOnlyOnAsk ==
    call.active
        => call.prompts = IF /\ call.write_called
                             /\ call.before.exists
                             /\ flags_update_strategy = "ask"
                            THEN 1 ELSE 0

\* C11 witness: the dialog was shown once, for an existing file under "ask".
C11_Witness ==
    /\ call.active
    /\ call.write_called
    /\ call.before.exists
    /\ flags_update_strategy = "ask"
    /\ call.prompts = 1

\* C12: in a get_flags call cmake is run only if CMakeLists.txt has a
\* modification time later than the one the manager recorded for it (or is
\* bound by this call), and the flag list is replaced only if the same
\* holds of .clang_complete (the call's own write included); a call in
\* which neither holds returns the list as it was, and so does every call
\* that returns without the second holding.
C12_Lazy ==
    [][op' = "get_flags" =>
          LET cmake_advanced ==
                  IF Loaded(cmake_file)
                    THEN fs_cmake[cmake_file.path].mtime > cmake_file.seen
                    ELSE Loaded(cmake_file')
              clang_advanced ==
                  IF Loaded(clang_complete_file)
                    THEN fs_clang'[clang_complete_file.path].mtime
                             > clang_complete_file.seen
                    ELSE Loaded(clang_complete_file')
          IN  /\ call'.tool = "run" => cmake_advanced
              /\ (flags' /= flags \/ call'.reparsed) => clang_advanced
              /\ (~cmake_advanced /\ ~clang_advanced)
                     => /\ ~call'.raised
                        /\ call'.tool = "not_run"
                        /\ flags' = flags
                        /\ call'.result = flags
              /\ (~call'.raised /\ ~clang_advanced)
                     => (flags' = flags /\ call'.result = flags)]_vars

\* C12 witness: a call that found both files as the manager had last seen
\* them, after cmake had run and flags had been loaded, and returned the
\* list it had.
C12_Witness ==
    /\ call.active
    /\ use_cmake
    /\ Loaded(cmake_file)
    /\ fs_db[cmake_file.path].exists
    /\ call.tool = "not_run"
    /\ ~call.reparsed
    /\ ~call.raised
    /\ Len(flags) > 0
    /\ call.result = flags

\* the flags the extraction rule gives for one command: the tokens that
\* start with -I or -D, and each token that starts with -isystem joined by
\* one space with the token after it
ExtractionRule(command) ==
    LET parts == Split(command)
    IN  {parts[i] : i \in {j \in 1..Len(parts) :
                             \/ StartsWith(parts[j], "-I")
                             \/ StartsWith(parts[j], "-D")}}
        \cup
        {parts[i] \o " " \o parts[i + 1] :
             i \in {j \in 1..(Len(parts) - 1) :
                       StartsWith(parts[j], "-isystem")}}

\* C13: for a database with at least one command record,
\* flags_from_database returns the set that collects, over all records, the
\* flags of the extraction rule, and nothing else.
C13_Extraction ==
    (/\ unit.fn = "flags_from_database"
     /\ fs_db[unit.dir].json
     /\ Len(fs_db[unit.dir].data) > 0)
        => /\ unit.kind = "set"
           /\ unit.set =
                  UNION {ExtractionRule(fs_db[unit.dir].data[i]) :
                             i \in 1..Len(fs_db[unit.dir].data)}

\* a line of .clang_complete with one of the three prefixes
Recognised(line) ==
    \/ StartsWith(line, "-D")
    \/ StartsWith(line, "-I")
    \/ StartsWith(line, "-isystem")

\* an include flag as the caller asked for it: -I<path> or -I "<path>"
IncludeFlag(separate_includes, p) ==
    IF separate_includes THEN "-I \"" \o p \o "\"" ELSE "-I" \o p

\* the -I lines of the file parsed by the last flags_from_clang_file call,
\* and the -I flags of the list it returned, both in their order
IncludeLines ==
    SelectSeq(ReadLines(fs_clang[unit.dir].text),
              LAMBDA line : StartsWith(line, "-I"))
IncludeFlags == SelectSeq(unit.list, LAMBDA flag : StartsWith(flag, "-I"))

\* C14 as stated: flags_from_clang_file returns one flag for each line with
\* one of the three prefixes and none for any other line; the -I flags are
\* those of the -I lines in the order of the lines; a relative path is
\* joined to the folder of the file and an absolute path is given as it is
\* written.
C14_AbsoluteAsWritten ==
    (unit.fn = "flags_from_clang_file" /\ fs_clang[unit.dir].exists)
        => /\ Len(unit.list)
                  = Len(SelectSeq(ReadLines(fs_clang[unit.dir].text),
                                  Recognised))
           /\ Len(IncludeFlags) = Len(IncludeLines)
           /\ \A i \in 1..Len(IncludeLines) :
                  LET p == Strip(Drop(IncludeLines[i], 2))
                  IN  IncludeFlags[i] =
                          IncludeFlag(unit.separate_includes,
                                      IF IsAbs(p) THEN p
                                      ELSE PathJoin(Folder(unit.dir), p))

\* C14 amended: as above, but an absolute path is given normalised
\* (os.path.normpath), which leaves only a normalised path as written.
C14_PathResolution ==
    (unit.fn = "flags_from_clang_file" /\ fs_clang[unit.dir].exists)
        => /\ Len(unit.list)
                  = Len(SelectSeq(ReadLines(fs_clang[unit.dir].text),
                                  Recognised))
           /\ Len(IncludeFlags) = Len(IncludeLines)
           /\ \A i \in 1..Len(IncludeLines) :
                  LET p == Strip(Drop(IncludeLines[i], 2))
                  IN  IncludeFlags[i] =
                          IncludeFlag(unit.separate_includes,
                                      IF IsAbs(p) THEN NormPath(p)
                                      ELSE PathJoin(Folder(unit.dir), p))

\* C14 witness: a file with a relative and an absolute include, the
\* latter not normalised, and a line that is no flag, parsed.
C14_Witness ==
    /\ unit.fn = "flags_from_clang_file"
    /\ ~unit.separate_includes
    /\ fs_clang[unit.dir].text = "-I../x\n-O2\n-I /a/../b\n"
    /\ unit.list = <<"-I" \o Folder(unit.dir) \o "/../x", "-I/b">>

\* the fixed strategy that stands for an answer of the dialog: "Merge!" is
\* DIALOG_YES, "Overwrite!" is DIALOG_NO, cancel is DIALOG_CANCEL
AnswerAsStrategy(user_pick) ==
    IF user_pick = "DIALOG_YES" THEN "merge"
    ELSE IF user_pick = "DIALOG_NO" THEN "overwrite"
    ELSE "keep_old"

\* C15: write_flags_to_file under "ask" on an existing file was answered
\* with one of the three answers and left the file as a call with the
\* fixed strategy of that answer, on the same file with the same new flags,
\* can leave it: the same text, and written or not alike.
C15_AskAsFixed ==
    (/\ unit.fn = "write_flags_to_file"
     /\ unit.strategy = "ask"
     /\ unit.before.exists)
        => LET fixed == AnswerAsStrategy(unit.user_pick)
               file == [loaded |-> TRUE, folder |-> Folder(unit.dir),
                        text |-> unit.before.text]
           IN  /\ unit.user_pick \in Picks
               /\ unit.flag_strategy = fixed
               /\ (unit.after.mtime = unit.before.mtime)
                      <=> (fixed = "keep_old")
               /\ \E order \in WriteOrders(unit.new_flags, file, fixed,
                                            "DIALOG_CANCEL") :
                      unit.after.text =
                          write_flags_to_file(unit.new_flags, file, fixed,
                                              "DIALOG_CANCEL", order).text

\* C15 witness: the dialog was answered "Merge!" for new flags that the
\* file did not have, and the file now has old and new flags.
C15_Witness ==
    /\ unit.fn = "write_flags_to_file"
    /\ unit.strategy = "ask"
    /\ unit.before.exists
    /\ unit.user_pick = "DIALOG_YES"
    /\ unit.new_flags /= {}
    /\ unit.new_flags \cap FlagSet(unit.dir, unit.before) = {}
    /\ FlagSet(unit.dir, unit.before) /= {}
    /\ FlagSet(unit.dir, unit.before) \subseteq FlagSet(unit.dir, unit.after)
    /\ unit.after.text /= unit.before.text

\* the orders in which the elements of S can be listed, each once
Listings(S) ==
    {f \in [1..Cardinality(S) -> S] :
         \A i, j \in 1..Cardinality(S) : f[i] = f[j] => i = j}

\* C16: write_flags_to_file on a path with no file creates the file for
\* every strategy: its text is the new flags, each once, joined by newlines
\* and ended by one; no strategy is resolved and no dialog is shown.
C16_NoFileWrites ==
    (unit.fn = "write_flags_to_file" /\ ~unit.before.exists)
        => /\ unit.after.exists
           /\ fs_clang[unit.dir] = unit.after
           /\ \E listing \in Listings(unit.new_flags) :
                  unit.after.text = Join("\n", listing) \o "\n"
           /\ unit.flag_strategy = "none"
           /\ unit.prompts = 0
           /\ unit.user_pick = "none"

\* C16 witness: the file was created under keep_old, and under ask without
\* a dialog, from a non-empty set of flags.
C16_Witness ==
    /\ unit.fn = "write_flags_to_file"
    /\ ~unit.before.exists
    /\ unit.strategy \in {"keep_old", "ask"}
    /\ Cardinality(unit.new_flags) = 2
    /\ unit.after.exists
    /\ unit.prompts = 0

\* C17: a get_flags call that runs cmake leaves the manager with the
\* modification time of CMakeLists.txt recorded, however the call ends; and
\* a call that finds CMakeLists.txt with the recorded modification time
\* does not run cmake, does not call write_flags_to_file, shows no dialog
\* and leaves .clang_complete and the database as they are.
C17_ActedOnce ==
    [][op' = "get_flags" =>
          /\ call'.tool = "run"
                 => /\ Loaded(cmake_file')
                    /\ cmake_file'.seen = fs_cmake[cmake_file'.path].mtime
          /\ (/\ Loaded(cmake_file)
               /\ cmake_file.seen = fs_cmake[cmake_file.path].mtime)
                 => /\ call'.tool = "not_run"
                    /\ ~call'.write_called
                    /\ call'.prompts = 0
                    /\ UNCHANGED <<cmake_file, fs_clang, fs_db>>]_vars

\* C17 witness: a call that did not run cmake although the only database
\* there is, left by an earlier call for the same CMakeLists.txt, is an
\* empty array, on which that earlier call raised.
C17_Witness ==
    /\ op = "get_flags"
    /\ call.active
    /\ call.tool = "not_run"
    /\ ~call.raised
    /\ Loaded(cmake_file)
    /\ cmake_file.seen = fs_cmake[cmake_file.path].mtime
    /\ fs_db[cmake_file.path].exists
    /\ fs_db[cmake_file.path].json
    /\ Len(fs_db[cmake_file.path].data) = 0

\* C18: a get_flags call that finds .clang_complete modified makes the
\* flag list the parse of that file with its own separate_includes; a call
\* that returns without finding it modified returns the list as it was,
\* whatever its separate_includes is.
C18_FormatOfLastParse ==
    [][op' = "get_flags" =>
          /\ call'.reparsed
                 => /\ flags' = flags_from_clang_file(
                                    ClangFileAt(clang_complete_file'.path,
                                                fs_clang'),
                                    call'.s)
                    /\ call'.result = flags'
          /\ (~call'.reparsed /\ ~call'.raised)
                 => (flags' = flags /\ call'.result = flags)]_vars

\* C18 witness: a call with separate_includes = False found nothing
\* modified and returned a list with an include in the form -I "<path>",
\* which an earlier call with separate_includes = True had parsed.
C18_Witness ==
    /\ op = "get_flags"
    /\ call.active
    /\ ~call.raised
    /\ ~call.reparsed
    /\ ~call.s
    /\ \E i \in 1..Len(call.result) : StartsWith(call.result[i], "-I \"")
    /\ call.result /= flags_from_clang_file(
                           ClangFileAt(clang_complete_file.path, fs_clang),
                           call.s)

\* C19: a get_flags call of a manager constructed with use_cmake = False
\* leaves the CMakeLists.txt reference unbound, does not run cmake, does
\* not call write_flags_to_file, shows no dialog and changes no file; no
\* database ever comes to exist.
C19_NoCMake ==
    [][(~use_cmake /\ op' = "get_flags") =>
          /\ cmake_file' = EmptyFile
          /\ call'.tool = "not_run"
          /\ ~call'.raised
          /\ ~call'.write_called
          /\ ~call'.wrote
          /\ call'.prompts = 0
          /\ UNCHANGED <<fs_cmake, fs_clang, fs_db>>
          /\ \A d \in Dirs : ~fs_db'[d].exists]_vars

\* C19 witness: with use_cmake = False, a call returned the flags of
\* .clang_complete while a CMakeLists.txt with a project was in scope.
C19_Witness ==
    /\ ~use_cmake
    /\ op = "get_flags"
    /\ call.active
    /\ call.reparsed
    /\ Len(call.result) > 0
    /\ \E d \in Dirs :
           fs_cmake[d].exists /\ Contains(fs_cmake[d].text, "project")

====
